---- MODULE Spec2Model ----
(***************************************************************************)
(* Whisper Proxy API (src/main.py): the POST /transcribe handler           *)
(* transcribe_audio, its admission check, the staging of the upload in a   *)
(* temporary file, the single call of the transcription provider and the   *)
(* release of the temporary file, for several requests handled at once     *)
(* over one shared temporary directory.                                    *)
(***************************************************************************)
EXTENDS Integers, Sequences, FiniteSets, TLC

(* ------------------------------ bounds --------------------------------- *)

\* Number of requests handled at the same time.
NumReq == 2

Requests == 1..NumReq

\* Names the temporary directory can hand out.  A request creates at most
\* one file, so NumReq names mean a free name always exists, as in a real
\* temporary directory.
Paths == 1..NumReq

(* --------------------------- Python values ----------------------------- *)

\* Python's None where a string is expected (content_type, str results).
None == "<None>"

\* Python's None as the value of UploadFile.filename; filenames are
\* sequences of characters.
NoFilename == <<"<None>">>

\* No "audio_file" part in the multipart body.
NoFile == [present |-> FALSE, filename |-> NoFilename, content_type |-> None]

UploadFile(fn, ct) == [present |-> TRUE, filename |-> fn, content_type |-> ct]

\* bool(x) of an optional string: None and "" are falsy.
Truthy(s) == s # None /\ s # ""

\* bool(x) of an optional character sequence.
TruthyName(fn) == fn # NoFilename /\ fn # <<>>

(* ----------------------------- str.lower ------------------------------- *)

Uppers == <<"A", "M", "P", "T", "V", "W", "X">>
Lowers == <<"a", "m", "p", "t", "v", "w", "x">>

LowerChar(c) ==
    IF \E i \in 1..Len(Uppers) : Uppers[i] = c
    THEN Lowers[CHOOSE i \in 1..Len(Uppers) : Uppers[i] = c]
    ELSE c

\* A bug: the comparison is made on the name as received.
lower_identity(s) == s

\* str.lower()
lower(s) == [i \in 1..Len(s) |-> LowerChar(s[i])]

\* str.endswith(ext)
endswith(s, ext) ==
    /\ Len(ext) <= Len(s)
    /\ SubSeq(s, Len(s) - Len(ext) + 1, Len(s)) = ext

(* --------------------------- admission check --------------------------- *)

\* line 67-68
allowed_types == {"audio/wav", "audio/mpeg", "audio/mp4", "audio/m4a",
                  "audio/webm", "application/octet-stream", "audio/wave", None}

\* line 74
allowed_extensions == { <<".", "w", "a", "v">>, <<".", "m", "p", "3">>,
                        <<".", "m", "4", "a">>, <<".", "w", "e", "b", "m">>,
                        <<".", "m", "p", "4">> }

\* line 73: filename = audio_file.filename or ""
FilenameOrEmpty(fn) == IF TruthyName(fn) THEN fn ELSE <<>>

\* lines 71-80: TRUE when the handler raises the 400 of line 77.
Rejects(f) ==
    /\ Truthy(f.content_type)
    /\ f.content_type \notin allowed_types
    /\ ~ \E ext \in allowed_extensions :
            endswith(lower(FilenameOrEmpty(f.filename)), ext)

\* A bug: the detail is formatted from audio_file.filename, not from the
\* local filename, so that an absent name is echoed as it is.
UnsupportedDetailRaw(f) ==
    [kind |-> "UnsupportedMediaType",
     msg |-> "Tipul fisierului nu este suportat",
     content_type |-> f.content_type,
     filename |-> f.filename,
     cause |-> ""]

\* lines 77-80: the detail of the 400, an f-string of the content type and
\* of the local filename.
UnsupportedDetail(f) ==
    [kind |-> "UnsupportedMediaType",
     msg |-> "Tipul fisierului nu este suportat",
     content_type |-> f.content_type,
     filename |-> FilenameOrEmpty(f.filename),
     cause |-> ""]

\* line 59
MissingFileDetail ==
    [kind |-> "MissingFile",
     msg |-> "Nu a fost furnizat niciun fisier audio",
     content_type |-> None,
     filename |-> <<>>,
     cause |-> ""]

\* The framework's answer to a request without the required field declared
\* by File(...) on line 46: the handler body is not run.
ValidationErrorDetail ==
    [kind |-> "RequestValidationError",
     msg |-> "field required: audio_file",
     content_type |-> None,
     filename |-> <<>>,
     cause |-> ""]

\* lines 122-125: the detail of the 500, an f-string of str(e).
TranscriptionFailedDetail(cause) ==
    [kind |-> "TranscriptionFailed",
     msg |-> "Eroare la transcrierea audio",
     content_type |-> None,
     filename |-> <<>>,
     cause |-> cause]

NoDetail ==
    [kind |-> "", msg |-> "", content_type |-> None, filename |-> <<>>,
     cause |-> ""]

NoBody == [success |-> FALSE, transcription |-> None, filename |-> NoFilename]

\* No response sent yet.
NoResponse == [status |-> 0, detail |-> NoDetail, body |-> NoBody]

\* raise HTTPException(status_code, detail)
HTTPException(status_code, detail) ==
    [status |-> status_code, detail |-> detail, body |-> NoBody]

\* lines 108-112: the dictionary returned, sent with status 200.
Success(text, fn) ==
    [status |-> 200, detail |-> NoDetail,
     body |-> [success |-> TRUE, transcription |-> text, filename |-> fn]]

(* ----------------------- the provider's answers ------------------------ *)

\* What openai.Audio.transcribe can return: a mapping with or without the
\* key "text", or a value that is not a mapping (a bare string).
Transcripts ==
    { [isdict |-> TRUE,  hasText |-> TRUE,  text |-> "buna ziua"],
      [isdict |-> TRUE,  hasText |-> FALSE, text |-> ""],
      [isdict |-> FALSE, hasText |-> FALSE, text |-> "buna ziua"] }

NoTranscript == [isdict |-> FALSE, hasText |-> FALSE, text |-> None]

\* transcript.get(...) exists on mappings only (line 102).
HasGet(t) == t.isdict

\* transcript.get("text", "")
GetText(t) == IF t.hasText THEN t.text ELSE ""

\* line 105
transcription_text(t) == IF t.isdict THEN GetText(t) ELSE t.text

(* ---------------------- outcome of the inner try ----------------------- *)

NoPending == [kind |-> "none", value |-> NoResponse, cause |-> ""]
Return(resp) == [kind |-> "return", value |-> resp, cause |-> ""]
Raise(cause) == [kind |-> "raise", value |-> NoResponse, cause |-> cause]

\* What the caller receives once the finally block is over: the value
\* returned on line 108, or the exception turned into the 500 of line 122.
Outcome(p) ==
    IF p.kind = "return" THEN p.value
    ELSE HTTPException(500, TranscriptionFailedDetail(p.cause))

(* ----------------------------- file system ----------------------------- *)

Absent == -1
EmptyBytes == 0

\* The bytes uploaded with request r, told apart by the request.
Payload(r) == r

NoBytes == -1
NoPath == 0

(* -------------------------------- state -------------------------------- *)

VARIABLES
    pc,             \* position of each request in the handler
    audio_file,     \* the upload of each request (parameter, line 46)
    audio_content,  \* local of line 84
    temp_name,      \* temp_file.name, line 87
    temp_file_path, \* local of line 89
    transcript,     \* local of line 96
    pending,        \* value or exception that left the body of the inner try
    response,       \* what the caller received
    fs,             \* the temporary directory: path -> bytes, or Absent
    calls,          \* times openai.Audio.transcribe was invoked, per request
    sent            \* bytes the provider was given, per request

vars == <<pc, audio_file, audio_content, temp_name, temp_file_path,
          transcript, pending, response, fs, calls, sent>>

Init ==
    /\ pc = [r \in Requests |-> "idle"]
    /\ audio_file = [r \in Requests |-> NoFile]
    /\ audio_content = [r \in Requests |-> NoBytes]
    /\ temp_name = [r \in Requests |-> NoPath]
    /\ temp_file_path = [r \in Requests |-> NoPath]
    /\ transcript = [r \in Requests |-> NoTranscript]
    /\ pending = [r \in Requests |-> NoPending]
    /\ response = [r \in Requests |-> NoResponse]
    /\ fs = [p \in Paths |-> Absent]
    /\ calls = [r \in Requests |-> 0]
    /\ sent = [r \in Requests |-> NoBytes]

(* ------------------------------- inputs -------------------------------- *)

NameTxt == <<"a", ".", "t", "x", "t">>
NameWavUpper == <<"A", ".", "W", "A", "V">>

\* Uploads of the concurrent specifications: admitted by content type,
\* admitted by extension, rejected with and without a filename, and the
\* request without a file part.
LifecycleFiles ==
    { NoFile,
      UploadFile(NameTxt, "audio/wav"),
      UploadFile(NameTxt, "text/plain"),
      UploadFile(NoFilename, "text/plain"),
      UploadFile(NameWavUpper, "text/plain") }

ContentTypes ==
    { None, "", "audio/wav", "audio/mpeg", "application/octet-stream",
      "audio/wave", "text/plain", "audio/mp3", "Audio/WAV" }

Filenames ==
    { NoFilename, <<>>, NameTxt, NameWavUpper,
      <<"a", ".", "w", "a", "v">>,
      <<"w", "a", "v">>,
      <<"x", ".", "M", "p", "3">>,
      <<"x", ".", "m", "4", "a">>,
      <<"x", ".", "w", "e", "b", "m">>,
      <<"x", ".", "m", "p", "4">>,
      <<".", "w", "a", "v", ".", "t", "x", "t">> }

\* Uploads of the admission specification.
AdmissionFiles ==
    { NoFile } \cup { UploadFile(fn, ct) : fn \in Filenames, ct \in ContentTypes }

(* ------------------------------- actions ------------------------------- *)

\* A bug: the rejection is reported but the handler goes on.
DispatchFallThrough(r, f) ==
    /\ pc[r] = "idle"
    /\ audio_file' = [audio_file EXCEPT ![r] = f]
    /\ IF ~f.present
       THEN /\ response' = [response EXCEPT ![r] =
                               HTTPException(422, ValidationErrorDetail)]
            /\ pc' = [pc EXCEPT ![r] = "done"]
       ELSE /\ response' = [response EXCEPT ![r] =
                  IF Rejects(f) THEN HTTPException(400, UnsupportedDetail(f))
                  ELSE NoResponse]
            /\ pc' = [pc EXCEPT ![r] = "read"]
    /\ UNCHANGED <<audio_content, temp_name, temp_file_path, transcript,
                   pending, fs, calls, sent>>

\* lines 45-80: a POST /transcribe arrives with upload f.  File(...) makes
\* the field required, so a request without it is answered by the framework;
\* otherwise the handler runs its two checks and raises or goes on.
Dispatch(r, f) ==
    /\ pc[r] = "idle"
    /\ audio_file' = [audio_file EXCEPT ![r] = f]
    /\ IF ~f.present
       THEN /\ response' = [response EXCEPT ![r] =
                               HTTPException(422, ValidationErrorDetail)]
            /\ pc' = [pc EXCEPT ![r] = "done"]
       ELSE IF ~f.present      \* line 58: "if not audio_file"
       THEN /\ response' = [response EXCEPT ![r] =
                               HTTPException(400, MissingFileDetail)]
            /\ pc' = [pc EXCEPT ![r] = "done"]
       ELSE IF Rejects(f)
       THEN /\ response' = [response EXCEPT ![r] =
                               HTTPException(400, UnsupportedDetail(f))]
            /\ pc' = [pc EXCEPT ![r] = "done"]
       ELSE /\ response' = response
            /\ pc' = [pc EXCEPT ![r] = "read"]
    /\ UNCHANGED <<audio_content, temp_name, temp_file_path, transcript,
                   pending, fs, calls, sent>>

\* line 84: audio_content = await audio_file.read()
ReadPayload(r) ==
    /\ pc[r] = "read"
    /\ audio_content' = [audio_content EXCEPT ![r] = Payload(r)]
    /\ pc' = [pc EXCEPT ![r] = "create"]
    /\ UNCHANGED <<audio_file, temp_name, temp_file_path, transcript,
                   pending, response, fs, calls, sent>>

\* A bug: the name is taken without the exclusive create.
AnyName(p) == TRUE

\* mkstemp opens the name with O_CREAT | O_EXCL: only a name that does not
\* exist can be handed out.
FreeName(p) == fs[p] = Absent

\* line 87: tempfile.NamedTemporaryFile(delete=False, suffix=".wav") creates
\* an empty file under a name that is not in use.
CreateTemp(r) ==
    /\ pc[r] = "create"
    /\ \E p \in Paths :
          /\ FreeName(p)
          /\ fs' = [fs EXCEPT ![p] = EmptyBytes]
          /\ temp_name' = [temp_name EXCEPT ![r] = p]
    /\ pc' = [pc EXCEPT ![r] = "write"]
    /\ UNCHANGED <<audio_file, audio_content, temp_file_path, transcript,
                   pending, response, calls, sent>>

\* lines 88-89 and the end of the with block: the bytes are written and the
\* file closed, or the write (or the flush at close) fails with OSError and
\* the exception leaves through line 119; delete=False keeps the file.
WriteTemp(r) ==
    /\ pc[r] = "write"
    /\ \/ /\ fs' = [fs EXCEPT ![temp_name[r]] = audio_content[r]]
          /\ temp_file_path' = [temp_file_path EXCEPT ![r] = temp_name[r]]
          /\ pc' = [pc EXCEPT ![r] = "call"]
          /\ UNCHANGED response
       \/ /\ response' = [response EXCEPT ![r] =
                 HTTPException(500, TranscriptionFailedDetail("OSError"))]
          /\ pc' = [pc EXCEPT ![r] = "done"]
          /\ UNCHANGED <<fs, temp_file_path>>
    /\ UNCHANGED <<audio_file, audio_content, temp_name, transcript,
                   pending, calls, sent>>

\* A bug: a failed provider call is made again.
RetryAfterRaise(r) == IF calls[r] < 2 THEN "call" ELSE "exists"

\* lines 91-114: an exception raised by the provider call leaves the inner
\* try, whose finally block runs next; nothing calls the provider again.
AfterProviderRaise(r) == "exists"

\* lines 95-112: open the staged file, give it to the provider, print and
\* extract the text, build the result.  Whatever leaves the inner try, value
\* or exception, waits for the finally block.
Transcribe(r) ==
    /\ pc[r] = "call"
    /\ IF fs[temp_file_path[r]] = Absent
       THEN \* line 95: open() raises FileNotFoundError
            /\ pending' = [pending EXCEPT ![r] = Raise("FileNotFoundError")]
            /\ pc' = [pc EXCEPT ![r] = "exists"]
            /\ UNCHANGED <<transcript, calls, sent>>
       ELSE /\ calls' = [calls EXCEPT ![r] = @ + 1]
            /\ sent' = [sent EXCEPT ![r] = fs[temp_file_path[r]]]
            /\ \/ \* line 96: the provider call raises
                  /\ pending' = [pending EXCEPT ![r] = Raise("APIError")]
                  /\ pc' = [pc EXCEPT ![r] = AfterProviderRaise(r)]
                  /\ UNCHANGED transcript
               \/ \E t \in Transcripts :
                     /\ transcript' = [transcript EXCEPT ![r] = t]
                     /\ pending' = [pending EXCEPT ![r] =
                           IF ~HasGet(t)
                           THEN \* line 102: transcript.get in the print
                                Raise("AttributeError")
                           ELSE Return(Success(transcription_text(t),
                                               audio_file[r].filename))]
                     /\ pc' = [pc EXCEPT ![r] = "exists"]
    /\ UNCHANGED <<audio_file, audio_content, temp_name, temp_file_path,
                   response, fs>>

\* line 116: os.path.exists(temp_file_path); when the file is not there the
\* finally block is over and the pending value or exception goes on.
FinallyExists(r) ==
    /\ pc[r] = "exists"
    /\ IF fs[temp_file_path[r]] # Absent
       THEN /\ pc' = [pc EXCEPT ![r] = "unlink"]
            /\ UNCHANGED response
       ELSE /\ response' = [response EXCEPT ![r] = Outcome(pending[r])]
            /\ pc' = [pc EXCEPT ![r] = "done"]
    /\ UNCHANGED <<audio_file, audio_content, temp_name, temp_file_path,
                   transcript, pending, fs, calls, sent>>

\* line 117: os.unlink(temp_file_path).  On a file that is no longer there it
\* raises FileNotFoundError inside the finally block: that exception replaces
\* the pending value or exception and is the one caught on line 119.
FinallyUnlink(r) ==
    /\ pc[r] = "unlink"
    /\ IF fs[temp_file_path[r]] = Absent
       THEN /\ response' = [response EXCEPT ![r] =
                               Outcome(Raise("FileNotFoundError"))]
            /\ UNCHANGED fs
       ELSE /\ fs' = [fs EXCEPT ![temp_file_path[r]] = Absent]
            /\ response' = [response EXCEPT ![r] = Outcome(pending[r])]
    /\ pc' = [pc EXCEPT ![r] = "done"]
    /\ UNCHANGED <<audio_file, audio_content, temp_name, temp_file_path,
                   transcript, pending, calls, sent>>

\* Something outside the service (a cleaner of the temporary directory)
\* removes a file.
TmpCleaner(p) ==
    /\ fs[p] # Absent
    /\ fs' = [fs EXCEPT ![p] = Absent]
    /\ UNCHANGED <<pc, audio_file, audio_content, temp_name, temp_file_path,
                   transcript, pending, response, calls, sent>>

(* --------------------------- specifications ---------------------------- *)

Handle(r) ==
    \/ ReadPayload(r)
    \/ CreateTemp(r)
    \/ WriteTemp(r)
    \/ Transcribe(r)
    \/ FinallyExists(r)
    \/ FinallyUnlink(r)

\* Requests handled concurrently; only the service touches the directory.
Next ==
    \E r \in Requests :
        \/ \E f \in LifecycleFiles : Dispatch(r, f)
        \/ Handle(r)

Spec == Init /\ [][Next]_vars

\* The same, with the temporary directory open to an outside cleaner.
NextEnv ==
    \/ \E r \in Requests :
          \/ \E f \in LifecycleFiles : Dispatch(r, f)
          \/ Handle(r)
    \/ \E p \in Paths : TmpCleaner(p)

SpecEnv == Init /\ [][NextEnv]_vars

\* One request, over every upload of AdmissionFiles.
NextAdmission ==
    \/ \E f \in AdmissionFiles : Dispatch(1, f)
    \/ Handle(1)

SpecAdmission == Init /\ [][NextAdmission]_vars

(* ------------------------------- claims -------------------------------- *)

Done(r) == pc[r] = "done"

\* The request got past the checks of lines 57-80.
PassedAdmission(r) ==
    /\ pc[r] # "idle"
    /\ audio_file[r].present
    /\ response[r].status \notin {400, 422}

\* The request has a staged file of its own and has not returned yet.
HoldsStagedFile(r) == pc[r] \in {"write", "call", "exists", "unlink"}

\* The write of the staged file failed (lines 88-89 never completed).
WriteFailed(r) ==
    Done(r) /\ temp_name[r] # NoPath /\ temp_file_path[r] = NoPath

\* C1: every admitted request creates exactly one staged file, and at the
\* moment the handler returns or raises, on whatever path, that file is no
\* longer on disk.
C1_StagedFileGoneAtReturn ==
    [][\A r \in Requests :
          (pc[r] # "done" /\ pc'[r] = "done" /\ audio_file'[r].present
             /\ response'[r].status \notin {400, 422})
          => (temp_name'[r] # NoPath /\ fs'[temp_name'[r]] = Absent)]_vars

\* C2: when staging, the provider call or the extraction fails, the request
\* ends with status 500 whose detail carries the cause of that failure, and
\* no success result.
C2_FailureIs500WithCause ==
    \A r \in Requests :
        /\ WriteFailed(r) =>
              /\ response[r].status = 500
              /\ response[r].detail.kind = "TranscriptionFailed"
              /\ response[r].detail.cause = "OSError"
              /\ ~response[r].body.success
        /\ (Done(r) /\ pending[r].kind = "raise") =>
              /\ response[r].status = 500
              /\ response[r].detail.kind = "TranscriptionFailed"
              /\ response[r].detail.cause = pending[r].cause
              /\ ~response[r].body.success

\* Letters a and b are the same up to case (b is lower case).
SameLetter(a, b) ==
    a = b \/ \E k \in 1..Len(Uppers) : Uppers[k] = a /\ Lowers[k] = b

\* Name fn ends, case-insensitively, with ext.
EndsWithIgnoringCase(fn, ext) ==
    /\ fn # NoFilename
    /\ Len(fn) >= Len(ext)
    /\ \A i \in 1..Len(ext) : SameLetter(fn[Len(fn) - Len(ext) + i], ext[i])

\* The admission rule as the claim words it.
ClaimAdmits(f) ==
    IF f.content_type = None \/ f.content_type = ""
       \/ f.content_type \in (allowed_types \ {None})
    THEN TRUE
    ELSE \E ext \in allowed_extensions : EndsWithIgnoringCase(f.filename, ext)

\* C3: a request with a file is admitted whenever its content type is
\* absent, empty or allowed, whatever its filename; otherwise exactly when
\* its filename ends, case-insensitively, with an allowed extension.
C3_AdmissionRule ==
    \A r \in Requests :
        (pc[r] # "idle" /\ audio_file[r].present)
        => (PassedAdmission(r) <=> ClaimAdmits(audio_file[r]))

C3_Witness ==
    \E r \in Requests :
        /\ audio_file[r] = UploadFile(NameWavUpper, "text/plain")
        /\ pc[r] = "read"

\* C4: a declared content type outside the allowed set together with a
\* filename that matches no allowed extension ends with status 400, and the
\* detail echoes the content type and the filename, the empty string when
\* the filename is absent.
C4_Rejected400EchoesInput ==
    \A r \in Requests :
        (/\ pc[r] # "idle"
         /\ audio_file[r].present
         /\ audio_file[r].content_type \notin {None, ""}
         /\ audio_file[r].content_type \notin allowed_types
         /\ ~ \E ext \in allowed_extensions :
                 EndsWithIgnoringCase(audio_file[r].filename, ext))
        => /\ Done(r)
           /\ response[r].status = 400
           /\ response[r].detail.kind = "UnsupportedMediaType"
           /\ response[r].detail.content_type = audio_file[r].content_type
           /\ response[r].detail.filename =
                 (IF audio_file[r].filename = NoFilename THEN <<>>
                  ELSE audio_file[r].filename)

C4_Witness ==
    \E r \in Requests :
        /\ audio_file[r] = UploadFile(NoFilename, "text/plain")
        /\ response[r].status = 400
        /\ response[r].detail.filename = <<>>

\* C5: a request with no file field ends with status 400 and a MissingFile
\* detail, stages nothing and never calls the provider.
C5_MissingFileIs400 ==
    \A r \in Requests :
        (pc[r] # "idle" /\ ~audio_file[r].present)
        => /\ response[r].status = 400
           /\ response[r].detail.kind = "MissingFile"
           /\ temp_name[r] = NoPath
           /\ calls[r] = 0

\* C6: when the provider call succeeds the request returns success with the
\* text: the "text" entry of a mapping ("" without one), the string form of
\* anything else; neither shape ends in an error.
C6_BothShapesSucceed ==
    \A r \in Requests :
        (Done(r) /\ transcript[r] \in Transcripts)
        => response[r] =
              Success(IF transcript[r].isdict
                      THEN (IF transcript[r].hasText THEN transcript[r].text
                            ELSE "")
                      ELSE transcript[r].text,
                      audio_file[r].filename)

\* C7: a failure while deleting the staged file never changes what the
\* caller gets: a request whose call and extraction succeeded returns 200
\* with the transcript, one that failed reports its own cause.
C7_DeleteFailureSwallowed ==
    \A r \in Requests :
        Done(r) =>
           /\ pending[r].kind = "return" =>
                 /\ response[r].status = 200
                 /\ response[r] = pending[r].value
           /\ pending[r].kind = "raise" =>
                 /\ response[r].status = 500
                 /\ response[r].detail.cause = pending[r].cause

\* The provider call of request r raised.
ProviderFailed(r) == pending[r].kind = "raise" /\ pending[r].cause = "APIError"

\* C8: the provider is called at most once per request; after a failed call
\* the request only releases and answers, and its answer is the 500.
C8_NoRetry ==
    \A r \in Requests :
        /\ calls[r] <= 1
        /\ ProviderFailed(r) =>
              /\ calls[r] = 1
              /\ pc[r] \in {"exists", "unlink", "done"}
              /\ Done(r) =>
                    /\ response[r].status = 500
                    /\ response[r].detail.kind = "TranscriptionFailed"

C8_Witness ==
    \E r \in Requests :
        /\ Done(r)
        /\ ProviderFailed(r)
        /\ calls[r] = 1
        /\ response[r].status = 500

\* C9: requests in flight never hold the same staged path, the staged file
\* of a request in flight is on disk with that request's own bytes (no other
\* request deleted or overwrote it), and the provider is given the bytes of
\* the request that called it.
C9_NoCollision ==
    /\ \A r1, r2 \in Requests :
          (r1 # r2 /\ HoldsStagedFile(r1) /\ HoldsStagedFile(r2))
          => temp_name[r1] # temp_name[r2]
    /\ \A r \in Requests :
          /\ pc[r] = "write" => fs[temp_name[r]] = EmptyBytes
          /\ pc[r] \in {"call", "exists", "unlink"}
                => fs[temp_file_path[r]] = Payload(r)
          /\ calls[r] > 0 => sent[r] = Payload(r)

C9_Witness ==
    \E r1, r2 \in Requests :
        /\ r1 # r2
        /\ pc[r1] = "unlink"
        /\ pc[r2] = "call"
        /\ sent[r1] = Payload(r1)
        /\ fs[temp_file_path[r2]] = Payload(r2)

\* C10: the provider is called only by a request that passed admission,
\* read its payload and wrote its staged file; a request answered 400 has
\* read nothing, staged nothing and called nothing, and since nothing read
\* or staged is ever undone, no request that began staging is answered 400.
C10_LinearLifecycle ==
    \A r \in Requests :
        /\ calls[r] > 0 =>
              /\ PassedAdmission(r)
              /\ audio_content[r] # NoBytes
              /\ temp_file_path[r] # NoPath
        /\ temp_name[r] # NoPath => audio_content[r] # NoBytes
        /\ response[r].status = 400 =>
              /\ Done(r)
              /\ audio_content[r] = NoBytes
              /\ temp_name[r] = NoPath
              /\ calls[r] = 0

C10_Witness ==
    \E r1, r2 \in Requests :
        /\ calls[r1] = 1
        /\ response[r1].status = 200
        /\ response[r2].status = 400

====
